---------------------------- MODULE Spec2Model ----------------------------
(***************************************************************************)
(* A model of the LINE VOOM capture-and-publish bot (src/app.py) and its   *)
(* carousel downloader (src/voom_downloader.py).                           *)
(*                                                                         *)
(* A text is a sequence of one-character strings.  Every component has one *)
(* record variable; a specification runs one component, or the pipeline    *)
(* that puts them together, and leaves the others idle.                    *)
(***************************************************************************)
EXTENDS Integers, Sequences, FiniteSets, TLC

VARIABLES
  split,   \* a call of split_text_for_line
  conv,    \* a call of _text_blocks_from_content
  pub,     \* a call of _create_notion_page, with its _notion_request calls
  disp,    \* a call of _reply_with_optional_push or of _push_text
  ext,     \* a run of voom_downloader.py against one carousel
  sess,    \* the download directory and the sessions that use it
  orch     \* a message event: handle_message and the pipeline run it starts

vars == <<split, conv, pub, disp, ext, sess, orch>>

Idle == [pc |-> "idle"]

(***************************************************************************)
(* Helpers on sequences.                                                   *)
(***************************************************************************)
Range(s) == {s[i] : i \in 1..Len(s)}

Min(S) == CHOOSE x \in S : \A y \in S : x <= y

\* s[a:b] of Python, with 0 <= a, b (0-based, b exclusive, clipped to the length)
Slice(s, a, b) == SubSeq(s, a + 1, IF b > Len(s) THEN Len(s) ELSE b)

\* s[a:] of Python
From(s, a) == SubSeq(s, a + 1, Len(s))

RECURSIVE Concat(_)
Concat(ss) == IF ss = <<>> THEN <<>> ELSE Head(ss) \o Concat(Tail(ss))

\* the text made of n times the character c
Rep(c, n) == SubSeq([i \in 1..n |-> c], 1, n)

\* all texts over the alphabet A of length at most n
TextsUpTo(A, n) == UNION {[1..k -> A] : k \in 0..n}

(***************************************************************************)
(* MessageDispatcher: segmentation (src/app.py, 410-432).                  *)
(***************************************************************************)
\* The characters of the class [...] of the regular expression of line 412
\* that the model's alphabets hold; the newline is the other boundary.
SentenceEnd == {"!", "?"}

NL == "\n"

\* re.split on the empty matches that follow a sentence end or a newline,
\* the empty parts dropped: the text is cut after every boundary character.
_sentence_split(text) ==
  LET cuts == {i \in 1..Len(text) : text[i] \in SentenceEnd \cup {NL}}
               \cup (IF Len(text) > 0 THEN {Len(text)} ELSE {})
      RECURSIVE parts(_)
      parts(from) ==
        IF from > Len(text) THEN <<>>
        ELSE LET to == Min({i \in cuts : i >= from})
             IN  <<SubSeq(text, from, to)>> \o parts(to + 1)
  IN  parts(1)

\* the while loop of lines 426-428: [chunks, add] after it
RECURSIVE HardSlice(_, _, _)
HardSlice(chunks, add, limit) ==
  IF Len(add) > limit
    THEN HardSlice(Append(chunks, Slice(add, 0, limit)), From(add, limit), limit)
    ELSE [chunks |-> chunks, add |-> add]

\* SplitStep with the flush of line 424 forgotten: the segment being packed is
\* dropped when the next unit does not fit.
SplitStep_NoFlush(chunks, current, s, limit) ==
  IF Len(current) + Len(s) > limit
    THEN LET sl == HardSlice(chunks, s, limit)
         IN  [chunks |-> sl.chunks, current |-> sl.add]
    ELSE [chunks |-> chunks, current |-> current \o s]

\* SplitStep with the test of line 422 on the unit alone, not on the segment
\* being packed plus the unit.
SplitStep_UnitOnly(chunks, current, s, limit) ==
  IF Len(s) > limit
    THEN LET flushed == IF current # <<>> THEN Append(chunks, current) ELSE chunks
             sl      == HardSlice(flushed, s, limit)
         IN  [chunks |-> sl.chunks, current |-> sl.add]
    ELSE [chunks |-> chunks, current |-> current \o s]

\* one iteration of the for loop of lines 420-429 on the sentence s: when the
\* unit does not fit, the segment being packed is flushed (current is empty
\* from there on), the unit is hard-sliced and its rest starts a new segment.
SplitStep(chunks, current, s, limit) ==
  IF Len(current) + Len(s) > limit
    THEN LET flushed == IF current # <<>> THEN Append(chunks, current) ELSE chunks
             sl      == HardSlice(flushed, s, limit)
         IN  [chunks |-> sl.chunks, current |-> sl.add]
    ELSE [chunks |-> chunks, current |-> current \o s]

RECURSIVE SplitLoop(_, _, _, _)
SplitLoop(chunks, current, sentences, limit) ==
  IF sentences = <<>>
    THEN IF current # <<>> THEN Append(chunks, current) ELSE chunks
    ELSE LET st == SplitStep(chunks, current, Head(sentences), limit)
         IN  SplitLoop(st.chunks, st.current, Tail(sentences), limit)

split_text_for_line(text, limit) ==
  SplitLoop(<<>>, <<>>, _sentence_split(text), limit)

\* Bounds of the segmentation's inputs.
MaxSplitLen == 5
MaxSplitLimit == 4

SplitAlphabet == {"a", "b", "!", NL}

SplitInit ==
  /\ split \in [pc : {"call"}, text : TextsUpTo(SplitAlphabet, MaxSplitLen),
                limit : 1..MaxSplitLimit, chunks : {<<>>}]
  /\ conv = Idle /\ pub = Idle /\ disp = Idle /\ ext = Idle /\ sess = Idle /\ orch = Idle

SplitCall ==
  /\ split.pc = "call"
  /\ split' = [split EXCEPT !.pc = "done",
                            !.chunks = split_text_for_line(split.text, split.limit)]
  /\ UNCHANGED <<conv, pub, disp, ext, sess, orch>>

SplitNext == SplitCall

SpecSplit == SplitInit /\ [][SplitNext]_vars

\* C6: for every text and every limit >= 1, the segments split_text_for_line
\* returns, concatenated in order, are the text.
C6_SegmentsConcatToText ==
  split.pc = "done" => Concat(split.chunks) = split.text

\* C6's case: a text of several units, one of them hard-sliced, cut into
\* three segments or more.
C6_Witness ==
  /\ split.pc = "done"
  /\ Len(split.chunks) >= 3
  /\ Len(_sentence_split(split.text)) >= 2
  /\ \E s \in Range(_sentence_split(split.text)) : Len(s) > split.limit

\* C7: for every text and every limit >= 1, every segment split_text_for_line
\* returns is at most limit characters long.
C7_SegmentsWithinLimit ==
  split.pc = "done" =>
    \A i \in 1..Len(split.chunks) : Len(split.chunks[i]) <= split.limit

\* C7's case: a unit longer than the limit was hard-sliced and its rest was
\* packed with the unit that follows it (a segment holds a boundary character
\* before its last character).
C7_Witness ==
  /\ split.pc = "done"
  /\ \E s \in Range(_sentence_split(split.text)) : Len(s) > split.limit
  /\ \E i \in 1..Len(split.chunks) :
       /\ i > 1
       /\ \E k \in 1..(Len(split.chunks[i]) - 1) :
            split.chunks[i][k] \in SentenceEnd \cup {NL}

(***************************************************************************)
(* PublishingClient (src/app.py, 59-64, 102-144, 257-325).                 *)
(***************************************************************************)
NOTION_BLOCK_LIMIT == 100

NOTION_APPEND_BATCH_SIZE == 50

NOTION_RETRY_STATUSES == {429, 502, 503, 504}

NOTION_MAX_RETRIES == 3

NOTION_RETRY_BASE_DELAY == 1

\* The statuses a response may carry in the model: a success, the last
\* status below 400, errors no retry is made for, and the retried ones.
Statuses == {200, 399, 400, 404, 429, 500, 502, 503, 504}

\* The Retry-After header of a response: absent (or empty), a number
\* float() parses, or text float() raises ValueError on.
RetryAfterHeaders ==
  { [present |-> FALSE, parseable |-> FALSE, value |-> 0],
    [present |-> TRUE,  parseable |-> TRUE,  value |-> 7],
    [present |-> TRUE,  parseable |-> FALSE, value |-> 0] }

HexDigits == {"0", "1", "9", "a", "f", "A", "F"}

Lower(c) == IF c = "A" THEN "a" ELSE IF c = "F" THEN "f" ELSE c

\* re.search(r"([0-9a-fA-F]{32})", value): where the leftmost run of 32
\* hexadecimal characters starts, 0 when there is none
HexRunStart(value) ==
  LET starts == {i \in 1..(Len(value) - 31) :
                   \A k \in 0..31 : value[i + k] \in HexDigits}
  IN  IF starts = {} THEN 0 ELSE Min(starts)

\* None is the empty text here: the code tests both with "not value".
_extract_notion_page_id(value) ==
  IF value = <<>> THEN <<>>
  ELSE LET at == HexRunStart(value) IN
       IF at = 0 THEN <<>>
       ELSE LET raw == [k \in 1..32 |-> Lower(value[at + k - 1])]
            IN  Slice(raw, 0, 8) \o <<"-">> \o Slice(raw, 8, 12) \o <<"-">>
                \o Slice(raw, 12, 16) \o <<"-">> \o Slice(raw, 16, 20)
                \o <<"-">> \o Slice(raw, 20, 32)

\* the two blocks of lines 266-285: the link back to the post, an empty paragraph
header_blocks == << <<"header", 1>>, <<"header", 2>> >>

\* the blocks _text_blocks_from_content returned, n of them, by position
ContentBlocks(n) == [i \in 1..n |-> <<"content", i>>]

\* line 288 with one block more than the limit
InitialChildren_OneMore(all_children) ==
  Slice(all_children, 0, NOTION_BLOCK_LIMIT + 1)

\* line 288
InitialChildren(all_children) == Slice(all_children, 0, NOTION_BLOCK_LIMIT)

\* line 311 with the block at the limit skipped
RemainingAfterCreate_SkipOne(all_children) ==
  From(all_children, NOTION_BLOCK_LIMIT + 1)

\* line 311
RemainingAfterCreate(all_children) == From(all_children, NOTION_BLOCK_LIMIT)

\* _notion_request before its first attempt
RequestStart ==
  [pc |-> "loop", attempt |-> 0, requests |-> 0, status |-> 0, delay |-> 0]

\* The number of append batches the largest document of the model needs.
MaxBatches == 2

\* The numbers of converted blocks: none, one, and the counts around the
\* create call's limit and around each full append batch.
BlockCounts ==
  {0, 1} \cup
  { NOTION_BLOCK_LIMIT - Len(header_blocks) + k * NOTION_APPEND_BATCH_SIZE + d :
      k \in 0..MaxBatches, d \in {-1, 0, 1} }

\* The destination identifiers: none, a raw id, an id one digit short, a URL
\* holding an id in upper case, text with no hexadecimal run, and an id
\* written with the dashes of a UUID.
ParentPages ==
  { <<>>,
    Rep("a", 32),
    Rep("a", 31),
    <<"h", "/">> \o Rep("A", 16) \o Rep("9", 16) \o <<"?">>,
    Rep("g", 32),
    Rep("a", 8) \o <<"-">> \o Rep("1", 4) \o <<"-">> \o Rep("f", 4) \o <<"-">>
      \o Rep("9", 4) \o <<"-">> \o Rep("0", 12) }

\* line 257: _create_notion_page as it is called
PubCall(token, parent_page, blocks) ==
  [pc |-> "call", token |-> token, parent_page |-> parent_page,
   blocks |-> blocks,
   parent_id |-> <<>>, all_children |-> <<>>, remaining |-> <<>>,
   page_id |-> "None", error |-> "None", error_status |-> 0,
   sent |-> <<>>,
   succeeded |-> 0, req |-> [RequestStart EXCEPT !.pc = "idle"]]

PubInit ==
  /\ \E token \in BOOLEAN, parent_page \in ParentPages, n \in BlockCounts :
       pub = PubCall(token, parent_page, ContentBlocks(n))
  /\ split = Idle /\ conv = Idle /\ disp = Idle /\ ext = Idle /\ sess = Idle /\ orch = Idle

\* lines 257-304 with the test of NOTION_TOKEN (line 258) left out
_create_notion_page_call_NoTokenTest ==
  /\ pub.pc = "call"
  /\ LET parent_id == _extract_notion_page_id(pub.parent_page)
         all_children == header_blocks \o pub.blocks
     IN  IF pub.parent_page = <<>> \/ parent_id = <<>>
           THEN pub' = [pub EXCEPT !.pc = "raised", !.error = "ValueError"]
           ELSE pub' = [pub EXCEPT
                  !.pc = "create_req",
                  !.parent_id = parent_id,
                  !.all_children = all_children,
                  !.sent = <<[kind |-> "create",
                              children |-> InitialChildren(all_children)]>>,
                  !.req = RequestStart]
  /\ UNCHANGED <<split, conv, disp, ext, sess, orch>>

\* lines 257-304, up to the first attempt of the create call
_create_notion_page_call ==
  /\ pub.pc = "call"
  /\ LET parent_id == _extract_notion_page_id(pub.parent_page)
         all_children == header_blocks \o pub.blocks
     IN  IF ~pub.token \/ pub.parent_page = <<>> \/ parent_id = <<>>
           THEN pub' = [pub EXCEPT !.pc = "raised", !.error = "ValueError"]
           ELSE pub' = [pub EXCEPT
                  !.pc = "create_req",
                  !.parent_id = parent_id,
                  !.all_children = all_children,
                  !.sent = <<[kind |-> "create",
                              children |-> InitialChildren(all_children)]>>,
                  !.req = RequestStart]
  /\ UNCHANGED <<split, conv, disp, ext, sess, orch>>

\* lines 135-142: the delay slept before the next attempt
RetryDelay(retry_after, attempt) ==
  IF retry_after.present /\ retry_after.parseable
    THEN retry_after.value
    ELSE NOTION_RETRY_BASE_DELAY * (2 ^ attempt)

\* line 133: the loop goes on when attempt >= NOTION_MAX_RETRIES is false
RetriesLeft(attempt) == ~(attempt >= NOTION_MAX_RETRIES)

\* line 131 with the server errors retried as well
IsRetryStatus_With500(status) == status \in NOTION_RETRY_STATUSES \cup {500}

\* line 131
IsRetryStatus(status) == status \in NOTION_RETRY_STATUSES

\* lines 121-143: one iteration of the loop of _notion_request, the response
\* carrying the given status and Retry-After header.  The for loop of line
\* 121 ends by itself after NOTION_MAX_RETRIES + 1 iterations (line 144).
_notion_request_attempt(status, retry_after) ==
  /\ pub.pc \in {"create_req", "append_req"}
  /\ pub.req.pc = "loop"
  /\ LET r == pub.req
         got == [r EXCEPT !.requests = r.requests + 1, !.status = status]
     IN  IF status < 400 \/ ~IsRetryStatus(status) \/ ~RetriesLeft(r.attempt)
           THEN pub' = [pub EXCEPT !.req = [got EXCEPT !.pc = "returned"]]
           ELSE pub' = [pub EXCEPT !.req =
                  [got EXCEPT !.delay = RetryDelay(retry_after, r.attempt),
                              !.attempt = r.attempt + 1,
                              !.pc = IF r.attempt + 1 < NOTION_MAX_RETRIES + 1
                                       THEN "loop" ELSE "returned"]]
  /\ UNCHANGED <<split, conv, disp, ext, sess, orch>>

\* lines 305-311: the create call has returned
_create_notion_page_created ==
  /\ pub.pc = "create_req"
  /\ pub.req.pc = "returned"
  /\ IF pub.req.status >= 400
       THEN pub' = [pub EXCEPT !.pc = "raised", !.error = "RuntimeError",
                               !.error_status = pub.req.status]
       ELSE pub' = [pub EXCEPT
              !.pc = "append_loop",
              !.page_id = "page",
              !.succeeded = pub.succeeded + 1,
              !.remaining = RemainingAfterCreate(pub.all_children)]
  /\ UNCHANGED <<split, conv, disp, ext, sess, orch>>

\* lines 312-319: the next batch, up to the first attempt of its call
_create_notion_page_append ==
  /\ pub.pc = "append_loop"
  /\ pub.remaining # <<>>
  /\ pub' = [pub EXCEPT
       !.pc = "append_req",
       !.remaining = From(pub.remaining, NOTION_APPEND_BATCH_SIZE),
       !.sent = Append(pub.sent,
                  [kind |-> "append",
                   children |-> Slice(pub.remaining, 0, NOTION_APPEND_BATCH_SIZE)]),
       !.req = RequestStart]
  /\ UNCHANGED <<split, conv, disp, ext, sess, orch>>

\* lines 320-323 with the test of the status left out
_create_notion_page_appended_GoesOn ==
  /\ pub.pc = "append_req"
  /\ pub.req.pc = "returned"
  /\ pub' = [pub EXCEPT !.pc = "append_loop", !.succeeded = pub.succeeded + 1]
  /\ UNCHANGED <<split, conv, disp, ext, sess, orch>>

\* lines 320-323: an append call has returned
_create_notion_page_appended ==
  /\ pub.pc = "append_req"
  /\ pub.req.pc = "returned"
  /\ IF pub.req.status >= 400
       THEN pub' = [pub EXCEPT !.pc = "raised", !.error = "RuntimeError",
                               !.error_status = pub.req.status]
       ELSE pub' = [pub EXCEPT !.pc = "append_loop",
                               !.succeeded = pub.succeeded + 1]
  /\ UNCHANGED <<split, conv, disp, ext, sess, orch>>

\* line 325
_create_notion_page_return ==
  /\ pub.pc = "append_loop"
  /\ pub.remaining = <<>>
  /\ pub' = [pub EXCEPT !.pc = "done"]
  /\ UNCHANGED <<split, conv, disp, ext, sess, orch>>

PubNext ==
  \/ _create_notion_page_call
  \/ \E status \in Statuses, retry_after \in RetryAfterHeaders :
       _notion_request_attempt(status, retry_after)
  \/ _create_notion_page_created
  \/ _create_notion_page_append
  \/ _create_notion_page_appended
  \/ _create_notion_page_return

SpecPublish == PubInit /\ [][PubNext]_vars

\* C1: _notion_request goes on to a further attempt only after a response
\* whose status is 429, 502, 503 or 504, sends at most 4 requests per call,
\* and returns right after a response with a status below 400 or with any
\* other status from 400 up.
C1_RetryOnlyTransientAtMostFour ==
  /\ pub.req.requests <= 4
  /\ (pub.req.pc = "loop" /\ pub.req.requests > 0)
       => pub.req.status \in {429, 502, 503, 504}
  /\ (pub.req.requests > 0 /\ pub.req.status \notin {429, 502, 503, 504})
       => pub.req.pc = "returned"
  /\ (pub.req.pc = "returned" /\ pub.req.requests < 4)
       => pub.req.status \notin {429, 502, 503, 504}

\* C1's case: a call that used its whole budget, its fourth response being
\* one of the retried statuses still.
C1_Witness ==
  /\ pub.req.pc = "returned"
  /\ pub.req.requests = 4
  /\ pub.req.status = 503

ChildrenOf(sent) == Concat([i \in 1..Len(sent) |-> sent[i].children])

\* C2: an append call is issued only after the create call has succeeded and
\* after every earlier append call has, it carries at most 50 blocks, and when
\* the page is done the children of the calls, in the order issued, are the
\* header blocks followed by the converted blocks.
C2_AppendsInOrderAfterCreate ==
  /\ \A i \in 1..Len(pub.sent) :
       /\ pub.sent[i].kind = (IF i = 1 THEN "create" ELSE "append")
       /\ i > 1 => /\ Len(pub.sent[i].children) <= 50
                   /\ pub.page_id # "None"
  /\ Len(pub.sent) <= pub.succeeded + 1
  /\ pub.pc = "done" =>
       /\ pub.succeeded = Len(pub.sent)
       /\ ChildrenOf(pub.sent) = header_blocks \o pub.blocks

\* C2's case: a page done after a create call and two append batches or more.
C2_Witness ==
  /\ pub.pc = "done"
  /\ Len(pub.sent) >= 3
  /\ Len(pub.sent[Len(pub.sent)].children) < 50

\* C21 as stated (refuted): the children of the create call are the fixed
\* blocks followed by the first 100 converted blocks, or by all of them when
\* there are fewer, and the first block of the first append call is
\* converted block 101.
C21_CreateHasFirstHundredConverted ==
  pub.sent # <<>> =>
    /\ pub.sent[1].children
         = header_blocks
             \o SubSeq(pub.blocks, 1,
                       IF Len(pub.blocks) < 100 THEN Len(pub.blocks) ELSE 100)
    /\ Len(pub.sent) >= 2 => pub.sent[2].children[1] = <<"content", 101>>

\* C21, amended: the children of the create call are the two fixed blocks
\* (the link back to the post and an empty paragraph) followed by the first
\* 98 converted blocks, or by all of them when there are fewer, 100 children
\* at most; the first block of the first append call is converted block 99.
C21_CreateHasHeaderAndFirstNinetyEight ==
  pub.sent # <<>> =>
    /\ pub.sent[1].kind = "create"
    /\ Len(pub.sent[1].children) <= 100
    /\ pub.sent[1].children
         = << <<"header", 1>>, <<"header", 2>> >>
             \o SubSeq(pub.blocks, 1,
                       IF Len(pub.blocks) < 98 THEN Len(pub.blocks) ELSE 98)
    /\ Len(pub.sent) >= 2 =>
         /\ Len(pub.blocks) >= 99
         /\ pub.sent[2].kind = "append"
         /\ pub.sent[2].children[1] = <<"content", 99>>

\* C21's case: 99 converted blocks; the create call took 98 of them and the
\* one append call carries the last.
C21_Witness ==
  /\ Len(pub.blocks) = 99
  /\ Len(pub.sent) = 2
  /\ Len(pub.sent[1].children) = 100
  /\ pub.sent[2].children = << <<"content", 99>> >>

\* C14: _create_notion_page goes on to its create call whenever the token is
\* set and the destination identifier holds a run of 32 hexadecimal
\* characters; whenever the token is unset, or the identifier is absent or
\* holds no such run, it raises a configuration error (ValueError) before any
\* HTTP request is sent.
C14_ConfigErrorBeforeAnyRequest ==
  pub.pc \notin {"idle", "call"} =>
    LET page == pub.parent_page
        usable == /\ pub.token
                  /\ \E i \in 1..(Len(page) - 31) :
                       \A k \in 0..31 : page[i + k] \in HexDigits
    IN  IF usable
          THEN pub.error # "ValueError" /\ pub.sent # <<>>
          ELSE /\ pub.pc = "raised" /\ pub.error = "ValueError"
               /\ pub.sent = <<>> /\ pub.req.requests = 0

\* C14's case: the token is set and the identifier is as long as an id, or
\* longer, but holds no run of 32 hexadecimal characters; the call raised.
C14_Witness ==
  /\ pub.pc = "raised" /\ pub.error = "ValueError"
  /\ pub.token
  /\ Len(pub.parent_page) > 32

\* C15: when the create call or an append call comes back with a status of
\* 400 or more, the next step of _create_notion_page raises an error that
\* carries that status and sends no request; after the error no step is
\* taken at all (no append, no later batch, no compensating request).
C15_FailedCallRaisesAndStops ==
  [][ /\ (/\ pub.pc \in {"create_req", "append_req"}
          /\ pub.req.pc = "returned"
          /\ pub.req.status >= 400)
         => /\ pub'.pc = "raised"
            /\ pub'.error = "RuntimeError"
            /\ pub'.error_status = pub.req.status
            /\ pub'.sent = pub.sent
            /\ pub'.req = pub.req
      /\ pub.pc = "raised" => pub' = pub ]_vars

\* C15's case: an append call failed once its retries were used up, with
\* blocks still waiting for a later batch.
C15_Witness ==
  /\ pub.pc = "raised" /\ pub.error = "RuntimeError"
  /\ pub.error_status = 503
  /\ pub.req.requests = 4
  /\ Len(pub.sent) = 2
  /\ pub.remaining # <<>>

(***************************************************************************)
(* CarouselExtractor (src/voom_downloader.py, 18-24, 56-82, 142-143,       *)
(* 180-225).  The carousel is the environment: its slides in order, each   *)
(* with the URL of its image ("None" when the img has no src), whether the *)
(* active slide carries data-swiper-slide-index, and whether advancing     *)
(* from the last slide wraps around to the first.  The index of a slide is *)
(* its position from 0; NoIdx stands for None.                             *)
(***************************************************************************)
NoIdx == -1

Urls == {"A", "B", "C"}

\* The largest number of slides of a carousel.
MaxSlides == 4

Carousels == UNION {[1..n -> Urls \cup {"None"}] : n \in 1..MaxSlides}

\* lines 56-72: the image URL and the index of the slide the viewer shows
get_active_viewer_info(e) ==
  [src |-> e.slides[e.pos],
   idx |-> IF e.has_idx THEN e.pos - 1 ELSE NoIdx]

\* line 207 and the settle delay of line 210: the slide shown after ArrowRight
PressArrowRight(e) ==
  IF e.pos < Len(e.slides) THEN e.pos + 1
  ELSE IF e.wraps THEN 1 ELSE e.pos

\* Download with the downloaded.add of lines 195 and 216 forgotten.
Download_NoAdd(e, img_url, ok) ==
  IF ok
    THEN [e EXCEPT !.files = Append(e.files, [n |-> e.index, url |-> img_url]),
                   !.index = e.index + 1]
    ELSE [e EXCEPT !.pc = "failed"]

\* lines 193-196 and 214-217: download_image(src, index) and, when
\* raise_for_status does not raise, the bookkeeping after it; when it raises,
\* nothing catches the error and the script ends.
Download(e, img_url, ok) ==
  IF ok
    THEN [e EXCEPT !.files = Append(e.files, [n |-> e.index, url |-> img_url]),
                   !.downloaded = e.downloaded \cup {img_url},
                   !.index = e.index + 1]
    ELSE [e EXCEPT !.pc = "failed"]

\* the URL is noted as observed (a history variable, not program state)
Observe(first_seen, src) ==
  IF src # "None" /\ src \notin Range(first_seen)
    THEN Append(first_seen, src) ELSE first_seen

\* lines 142-143, 180-183: the script as it enters its loop on a carousel
ExtStart(slides, has_idx, wraps, hinted) ==
  [pc |-> "loop", slides |-> slides, has_idx |-> has_idx,
   wraps |-> wraps, pos |-> 1,
   total_indices |-> IF has_idx /\ hinted
                       THEN 0..(Len(slides) - 1) ELSE {},
   seen_indices |-> {}, downloaded |-> {}, index |-> 1,
   src |-> "None", idx |-> NoIdx,
   files |-> <<>>, first_seen |-> <<>>, exit_msg |-> "None"]

ExtInit ==
  /\ \E slides \in Carousels, has_idx \in BOOLEAN, wraps \in BOOLEAN,
        hinted \in BOOLEAN :
       ext = ExtStart(slides, has_idx, wraps, hinted)
  /\ split = Idle /\ conv = Idle /\ pub = Idle /\ disp = Idle /\ sess = Idle /\ orch = Idle

\* lines 188-196: read the slide shown, download its image if it is new
ExtRead(ok) ==
  /\ ext.pc = "loop"
  /\ LET info == get_active_viewer_info(ext)
         e1 == [ext EXCEPT
                  !.src = info.src, !.idx = info.idx,
                  !.seen_indices = IF info.idx # NoIdx
                                     THEN ext.seen_indices \cup {info.idx}
                                     ELSE ext.seen_indices,
                  !.first_seen = Observe(ext.first_seen, info.src),
                  !.pc = "advance"]
     IN  ext' = IF info.src # "None" /\ info.src \notin ext.downloaded
                  THEN Download(e1, info.src, ok)
                  ELSE e1
  /\ UNCHANGED <<split, conv, pub, disp, sess, orch>>

\* lines 199-223: advance, read again, download on a change, stop otherwise
ExtAdvance(ok) ==
  /\ ext.pc = "advance"
  /\ LET prev_src == ext.src
         prev_idx == ext.idx
         moved == [ext EXCEPT !.pos = PressArrowRight(ext)]
         new == get_active_viewer_info(moved)
         e1 == [moved EXCEPT !.first_seen = Observe(ext.first_seen, new.src)]
     IN  ext' =
           IF (new.idx # NoIdx /\ new.idx # prev_idx)
                \/ (new.src # "None" /\ new.src # prev_src)
             THEN IF new.src # "None" /\ new.src \notin ext.downloaded
                    THEN Download([e1 EXCEPT !.pc = "loop"], new.src, ok)
                    ELSE [e1 EXCEPT !.pc = "loop"]
             ELSE [e1 EXCEPT
                     !.pc = "done",
                     !.exit_msg =
                       IF ext.total_indices # {}
                          /\ Cardinality(ext.seen_indices)
                               >= Cardinality(ext.total_indices)
                         THEN "all_slides" ELSE "no_more"]
  /\ UNCHANGED <<split, conv, pub, disp, sess, orch>>

\* lines 188, 202-211: a call of the browser automation raises inside the
\* loop; nothing there catches it and the script ends with the traceback
ExtAutomationRaises ==
  /\ ext.pc \in {"loop", "advance"}
  /\ ext' = [ext EXCEPT !.pc = "crashed"]
  /\ UNCHANGED <<split, conv, pub, disp, sess, orch>>

ExtNext ==
  \/ \E ok \in BOOLEAN : ExtRead(ok)
  \/ \E ok \in BOOLEAN : ExtAdvance(ok)
  \/ ExtAutomationRaises

SpecExtract == ExtInit /\ [][ExtNext]_vars

\* The script runs on as long as it has a step to take.
SpecExtractFair == SpecExtract /\ WF_vars(ExtNext)

FileUrls(files) == [i \in 1..Len(files) |-> files[i].url]

\* C3: in a session no image URL is downloaded twice, the downloads are
\* numbered 1, 2, 3, ... in order, and they are the URLs observed, in the
\* order of their first observation (the last one missing when its download
\* failed).
C3_EachUrlOnceInFirstSeenOrder ==
  /\ \A i, j \in 1..Len(ext.files) :
       ext.files[i].url = ext.files[j].url => i = j
  /\ \A i \in 1..Len(ext.files) : ext.files[i].n = i
  /\ IF ext.pc = "failed"
       THEN /\ ext.first_seen # <<>>
            /\ FileUrls(ext.files)
                 = SubSeq(ext.first_seen, 1, Len(ext.first_seen) - 1)
       ELSE FileUrls(ext.files) = ext.first_seen

\* C3's case: the slides A, B, A, C with every download succeeding; the loop
\* has ended with the three files 1, 2, 3.
C3_Witness ==
  /\ ext.pc = "done"
  /\ ext.slides = <<"A", "B", "A", "C">>
  /\ FileUrls(ext.files) = <<"A", "B", "C">>

\* C4 (refuted by the code): when the loop has ended by itself on a carousel
\* whose slides all have an image, the image of every slide was downloaded.
C4_EverySlideDownloaded ==
  (ext.pc = "done" /\ "None" \notin Range(ext.slides))
    => Range(ext.slides) \subseteq Range(FileUrls(ext.files))

\* C5 (refuted by the code): the run of the script ends.
C5_LoopTerminates == <>(ext.pc \in {"done", "failed", "crashed"})

\* C22 (refuted by the code): when the loop has ended by itself, the slide
\* index and the image URL read after the last advance are the ones read
\* before it; and whether the loop ends at an advance depends on these two
\* readings only, not on the hint: all hinted indices seen neither ends the
\* loop nor keeps it going, and with an empty hint the loop does the same.
C22_ExitOnlyWhenNothingChanged ==
  /\ [](ext.pc = "done" =>
          /\ get_active_viewer_info(ext).idx = ext.idx
          /\ get_active_viewer_info(ext).src = ext.src)
  /\ [][ (ext.pc = "advance" /\ ext'.pc \in {"loop", "done"}) =>
           (ext'.pc = "done" <=>
              /\ get_active_viewer_info(ext').idx = ext.idx
              /\ get_active_viewer_info(ext').src = ext.src) ]_vars

\* C20 (refuted by the code): an automation exception raised while the loop
\* reads the slide shown or advances does not abort the session; the loop
\* goes on to its no-progress exit and the images downloaded so far are the
\* result.  ("crashed" is the script ended by the uncaught exception.)
C20_AutomationErrorIsNoProgress ==
  [][ (ext.pc \in {"loop", "advance"} /\ ext'.pc \notin {"loop", "advance"})
        => /\ ext'.pc \in {"done", "failed"}
           /\ ext'.pc = "done" => /\ ext'.exit_msg \in {"all_slides", "no_more"}
                                  /\ Len(ext'.files) >= Len(ext.files) ]_vars

(***************************************************************************)
(* MessageDispatcher: delivery (src/app.py, 435-469).  The calls of the    *)
(* messaging API are logged in disp.calls in the order they are made.      *)
(***************************************************************************)
LINE_TEXT_LIMIT == 4900

LINE_BATCH == 5

\* The largest number of segments of a text of the model.
MaxSegments == 11

\* A text of n characters with a sentence end after every every-th character
\* (none when every = 0).
Prose(n, every) ==
  SubSeq([i \in 1..n |-> IF every > 0 /\ i % every = 0 THEN "!" ELSE "a"], 1, n)

\* The texts dispatched: for every number of segments up to MaxSegments, an
\* unpunctuated text that fills its last segment, one that puts a single
\* character into it, and a text of sentences of 3000 characters, which go one
\* to a segment.
DispTexts ==
  {Prose(k * LINE_TEXT_LIMIT, 0) : k \in 0..MaxSegments}
    \cup {Prose((k - 1) * LINE_TEXT_LIMIT + 1, 0) : k \in 1..MaxSegments}
    \cup {Prose(k * 3000, 3000) : k \in 1..MaxSegments}

DispInit ==
  /\ disp \in [pc : {"call"}, op : {"reply", "push"},
               target_id : {"None", "U1"}, text : DispTexts,
               messages : {<<>>}, pending : {<<>>}, i : {0}, calls : {<<>>}]
  /\ split = Idle /\ conv = Idle /\ pub = Idle /\ ext = Idle /\ sess = Idle /\ orch = Idle

\* line 453
ReplyBatch(messages) == Slice(messages, 0, LINE_BATCH)

\* line 460 with the fifth message sent again
AfterReply_FromFour(messages) == From(messages, LINE_BATCH - 1)

\* line 460
AfterReply(messages) == From(messages, LINE_BATCH)

\* lines 451-461 with the test of target_id (line 461) left out
_reply_with_optional_push_NoTargetTest ==
  /\ disp.pc = "call"
  /\ disp.op = "reply"
  /\ LET messages == split_text_for_line(disp.text, LINE_TEXT_LIMIT)
         remaining == AfterReply(messages)
     IN  disp' = [disp EXCEPT
           !.messages = messages,
           !.calls = Append(disp.calls,
                       [kind |-> "reply", to |-> "reply_token",
                        messages |-> ReplyBatch(messages)]),
           !.pending = remaining,
           !.i = 0,
           !.pc = IF remaining # <<>> THEN "push_loop" ELSE "done"]
  /\ UNCHANGED <<split, conv, pub, ext, sess, orch>>

\* lines 451-461: the reply call, and whether push calls follow
_reply_with_optional_push ==
  /\ disp.pc = "call"
  /\ disp.op = "reply"
  /\ LET messages == split_text_for_line(disp.text, LINE_TEXT_LIMIT)
         remaining == AfterReply(messages)
     IN  disp' = [disp EXCEPT
           !.messages = messages,
           !.calls = Append(disp.calls,
                       [kind |-> "reply", to |-> "reply_token",
                        messages |-> ReplyBatch(messages)]),
           !.pending = remaining,
           !.i = 0,
           !.pc = IF remaining # <<>> /\ disp.target_id # "None"
                    THEN "push_loop" ELSE "done"]
  /\ UNCHANGED <<split, conv, pub, ext, sess, orch>>

\* lines 435-439: _push_text up to its loop
_push_text ==
  /\ disp.pc = "call"
  /\ disp.op = "push"
  /\ IF disp.target_id = "None"
       THEN disp' = [disp EXCEPT !.pc = "done"]
       ELSE LET messages == split_text_for_line(disp.text, LINE_TEXT_LIMIT)
            IN  disp' = [disp EXCEPT !.messages = messages,
                                     !.pending = messages,
                                     !.i = 0,
                                     !.pc = "push_loop"]
  /\ UNCHANGED <<split, conv, pub, ext, sess, orch>>

\* lines 440-447 and 462-469: one iteration of the loop over the batches
PushBatch ==
  /\ disp.pc = "push_loop"
  /\ disp.i < Len(disp.pending)
  /\ disp' = [disp EXCEPT
       !.calls = Append(disp.calls,
                   [kind |-> "push", to |-> disp.target_id,
                    messages |-> Slice(disp.pending, disp.i,
                                       disp.i + LINE_BATCH)]),
       !.i = disp.i + LINE_BATCH]
  /\ UNCHANGED <<split, conv, pub, ext, sess, orch>>

\* the range of lines 440 and 462 is used up
PushDone ==
  /\ disp.pc = "push_loop"
  /\ disp.i >= Len(disp.pending)
  /\ disp' = [disp EXCEPT !.pc = "done"]
  /\ UNCHANGED <<split, conv, pub, ext, sess, orch>>

DispNext ==
  \/ _reply_with_optional_push
  \/ _push_text
  \/ PushBatch
  \/ PushDone

SpecDispatch == DispInit /\ [][DispNext]_vars

MessagesOf(calls) == Concat([k \in 1..Len(calls) |-> calls[k].messages])

\* C8: with a target id, _reply_with_optional_push makes the reply call first,
\* with the first 5 segments of the text or fewer, then push calls only, each
\* of 5 segments but the last, which may have fewer; when it is done the
\* segments sent, in call order, are the segments of the text in order.
C8_ReplyThenPushesInOrder ==
  (disp.op = "reply" /\ disp.target_id # "None" /\ disp.calls # <<>>) =>
    LET segments == split_text_for_line(disp.text, 4900)
        n == Len(disp.calls)
    IN  /\ disp.calls[1].kind = "reply"
        /\ disp.calls[1].messages
             = SubSeq(segments, 1, IF Len(segments) < 5 THEN Len(segments) ELSE 5)
        /\ \A k \in 2..n :
             /\ disp.calls[k].kind = "push"
             /\ disp.calls[k].to = disp.target_id
             /\ Len(disp.calls[k].messages) \in 1..5
             /\ k < n => Len(disp.calls[k].messages) = 5
        /\ Len(MessagesOf(disp.calls)) <= Len(segments)
        /\ MessagesOf(disp.calls) = SubSeq(segments, 1, Len(MessagesOf(disp.calls)))
        /\ disp.pc = "done" => MessagesOf(disp.calls) = segments

\* C8's case: a text of 11 segments or more delivered by the reply call and
\* two push calls at least, the last with fewer than 5 segments.
C8_Witness ==
  /\ disp.op = "reply" /\ disp.target_id # "None" /\ disp.pc = "done"
  /\ Len(disp.calls) >= 3
  /\ Len(disp.calls[Len(disp.calls)].messages) < 5

\* C16: with no target id no push call is ever issued:
\* _reply_with_optional_push makes the reply call with the first 5 segments
\* of the text or fewer and is done, the segments after them being sent
\* nowhere, and _push_text makes no call at all.
C16_NoPushWithoutTarget ==
  disp.target_id = "None" =>
    LET segments == split_text_for_line(disp.text, 4900)
    IN  /\ \A k \in 1..Len(disp.calls) : disp.calls[k].kind # "push"
        /\ disp.op = "push" => disp.calls = <<>>
        /\ (disp.op = "reply" /\ disp.pc # "call") =>
             /\ disp.pc = "done"
             /\ Len(disp.calls) = 1
             /\ disp.calls[1].kind = "reply"
             /\ disp.calls[1].messages
                  = SubSeq(segments, 1,
                           IF Len(segments) < 5 THEN Len(segments) ELSE 5)

\* C16's case: a text of more than 5 segments replied to with no target id;
\* the call is done and the segments after the fifth were not sent.
C16_Witness ==
  /\ disp.target_id = "None" /\ disp.op = "reply" /\ disp.pc = "done"
  /\ Len(disp.messages) > 5
  /\ Len(MessagesOf(disp.calls)) = 5

(***************************************************************************)
(* DocumentConverter (src/app.py, 156-254).  A block is its type and its   *)
(* rich_text, a sequence of spans [content, bold]; chunk is the text the   *)
(* block was made from (a history field, not part of the block).           *)
(***************************************************************************)
\* the default of _chunk_text's limit, the only value it is called with
CHUNK_LIMIT == 1800

WS == {" "}

Digits == {"0", "1", "9"}

BulletMarks == {"-", "*"}

\* content.splitlines(), the newline being the one line boundary of the
\* model's alphabet: no line for the empty text, none after a final newline
splitlines(content) ==
  LET ends == {i \in 1..Len(content) : content[i] = NL}
      RECURSIVE lines(_)
      lines(from) ==
        IF from > Len(content) THEN <<>>
        ELSE IF \E i \in ends : i >= from
          THEN LET to == Min({i \in ends : i >= from})
               IN  <<SubSeq(content, from, to - 1)>> \o lines(to + 1)
          ELSE <<SubSeq(content, from, Len(content))>>
  IN  lines(1)

\* how many characters of s, from position p on, belong to S in a row
Run(s, p, S) ==
  CHOOSE k \in 0..(Len(s) - p + 1) :
    /\ \A j \in 0..(k - 1) : s[p + j] \in S
    /\ (p + k > Len(s) \/ s[p + k] \notin S)

\* line.strip()
strip(line) ==
  LET lead == Run(line, 1, WS)
      trail == CHOOSE k \in 0..Len(line) :
                 /\ \A j \in 0..(k - 1) : line[Len(line) - j] \in WS
                 /\ (k = Len(line) \/ line[Len(line) - k] \notin WS)
  IN  IF lead = Len(line) THEN <<>>
      ELSE SubSeq(line, lead + 1, Len(line) - trail)

\* The tail of a match of prefix, \s+, (.+)$ whose prefix ends at position
\* p: the text after the white space that follows p, <<>> when there is no
\* white space at p + 1.  In a stripped line that text is never empty, so
\* \s+ takes all the white space and (.+) the rest.
AfterSpace(s, p) ==
  LET k == Run(s, p + 1, WS)
  IN  IF k = 0 \/ p + k >= Len(s) THEN <<>> ELSE From(s, p + k)

\* lines 203-253: the block type of a stripped, non-blank line and the text
\* _chunk_text gets: heading (levels above 2 become 2), numbered item,
\* bulleted item, in that order, else a paragraph of the whole line
Classify(stripped) ==
  LET hashes == Run(stripped, 1, {"#"})
      digits == Run(stripped, 1, Digits)
      heading == IF hashes \in 1..6 THEN AfterSpace(stripped, hashes) ELSE <<>>
      number == IF digits >= 1 /\ digits < Len(stripped)
                   /\ stripped[digits + 1] = "."
                  THEN AfterSpace(stripped, digits + 1) ELSE <<>>
      bullet == IF stripped[1] \in BulletMarks
                  THEN AfterSpace(stripped, 1) ELSE <<>>
  IN  IF heading # <<>>
        THEN [type |-> IF hashes <= 2 THEN <<"heading", hashes>>
                                      ELSE <<"heading", 2>>,
              text |-> heading]
      ELSE IF number # <<>>
        THEN [type |-> <<"numbered_list_item">>, text |-> number]
      ELSE IF bullet # <<>>
        THEN [type |-> <<"bulleted_list_item">>, text |-> bullet]
      ELSE [type |-> <<"paragraph">>, text |-> stripped]

\* lines 171-188: the spans of a chunk.  A match of \*\*(.+?)\*\* opens at
\* the leftmost ** that has another ** three characters or more to its
\* right and closes at the nearest such **.
_rich_text_from_markdown(text) ==
  LET stars == {i \in 1..(Len(text) - 1) : text[i] = "*" /\ text[i + 1] = "*"}
      Plain(a, b) == [content |-> SubSeq(text, a, b), bold |-> FALSE]
      RECURSIVE scan(_, _)
      scan(pos, last) ==
        LET opens == {i \in stars : i >= pos /\ \E j \in stars : j >= i + 3}
        IN  IF opens = {}
              THEN IF last < Len(text) THEN <<Plain(last + 1, Len(text))>>
                                       ELSE <<>>
              ELSE LET i == Min(opens)
                       j == Min({k \in stars : k >= i + 3})
                   IN  (IF i - 1 > last THEN <<Plain(last + 1, i - 1)>> ELSE <<>>)
                       \o <<[content |-> SubSeq(text, i + 2, j - 1),
                             bold |-> TRUE]>>
                       \o scan(j + 2, j + 1)
      parts == scan(1, 0)
  IN  IF parts # <<>> THEN parts
      ELSE <<[content |-> <<>>, bold |-> FALSE]>>

Block(type, chunk) ==
  [type |-> type, rich_text |-> _rich_text_from_markdown(chunk), chunk |-> chunk]

\* lines 196-200
EmptyParagraph == [type |-> <<"paragraph">>, rich_text |-> <<>>, chunk |-> <<>>]

\* line 162 with the test made after the character is added
ChunkIsFull_Late(current, limit) == Len(current) > limit

\* line 162
ChunkIsFull(current, limit) == Len(current) + 1 > limit

\* The number of tokens of the short texts converted.
MaxTokens == 3

ConvTokens == {<<"#">>, <<" ">>, <<"1">>, <<".">>, <<"-">>, <<"a">>,
               <<"*">>, <<"*", "*">>, <<NL>>}

ShortContents ==
  {Concat(ts) : ts \in UNION {[1..k -> ConvTokens] : k \in 0..MaxTokens}}

\* Texts written out: the heading and the two bullets of the documented
\* example, headings of 2, 6 and 7 marks, bold spans in an item, a line of
\* white space between two lines.
ExampleContents ==
  { <<"#", " ", "a", NL, "-", " ", "a", NL, "-", " ", "b">>,
    <<"#", "#", " ", "a", " ", "b">>,
    <<"#", "#", "#", "#", "#", "#", " ", "a">>,
    <<"#", "#", "#", "#", "#", "#", "#", " ", "a">>,
    <<"1", "9", ".", " ", " ", "*", "*", "a", "*", "*", "b", "*", "*", "a", "*", "*">>,
    <<"a", NL, " ", " ", NL, " ", "a", " ">> }

\* Lines longer than a block may be, of every type: exactly the limit, one
\* character more, and for a paragraph two blocks and one character more; a
\* heading with a bold span at its start.
LongContents ==
  { prefix \o Rep("a", n) :
      prefix \in { <<>>, <<"#", " ">>, <<"#", "#", "#", " ">>,
                   <<"1", ".", " ">>, <<"-", " ">> },
      n \in {CHUNK_LIMIT, CHUNK_LIMIT + 1} }
    \cup { Rep("a", 2 * CHUNK_LIMIT + 1),
           <<"#", " ", "*", "*", "a", "*", "*">> \o Rep("b", CHUNK_LIMIT) }

ConvInit ==
  /\ conv \in [pc : {"call"},
               content : ShortContents \cup ExampleContents \cup LongContents,
               lines : {<<>>}, blocks : {<<>>}, block_type : {<<>>},
               text : {<<>>}, pos : {0}, current : {<<>>}, chunks : {<<>>}]
  /\ split = Idle /\ pub = Idle /\ disp = Idle /\ ext = Idle /\ sess = Idle /\ orch = Idle

\* lines 192-193
_text_blocks_from_content ==
  /\ conv.pc = "call"
  /\ conv' = [conv EXCEPT !.pc = "line", !.lines = splitlines(conv.content)]
  /\ UNCHANGED <<split, pub, disp, ext, sess, orch>>

\* lines 193-211, 222-223, 234-235, 246: the next line; a blank one gives an
\* empty paragraph, any other goes to _chunk_text (lines 157-160)
ConvLine ==
  /\ conv.pc = "line"
  /\ conv.lines # <<>>
  /\ LET stripped == strip(Head(conv.lines))
     IN  IF stripped = <<>>
           THEN conv' = [conv EXCEPT !.lines = Tail(conv.lines),
                                     !.blocks = Append(conv.blocks, EmptyParagraph)]
           ELSE LET c == Classify(stripped)
                IN  conv' = [conv EXCEPT !.lines = Tail(conv.lines),
                                         !.block_type = c.type,
                                         !.text = c.text,
                                         !.pos = 1,
                                         !.current = <<>>,
                                         !.chunks = <<>>,
                                         !.pc = "chunk"]
  /\ UNCHANGED <<split, pub, disp, ext, sess, orch>>

\* lines 161-165: one character of the loop of _chunk_text
_chunk_text_char ==
  /\ conv.pc = "chunk"
  /\ conv.pos <= Len(conv.text)
  /\ LET ch == conv.text[conv.pos]
     IN  IF ChunkIsFull(conv.current, CHUNK_LIMIT)
           THEN conv' = [conv EXCEPT !.chunks = Append(conv.chunks, conv.current),
                                     !.current = <<ch>>,
                                     !.pos = conv.pos + 1]
           ELSE conv' = [conv EXCEPT !.current = Append(conv.current, ch),
                                     !.pos = conv.pos + 1]
  /\ UNCHANGED <<split, pub, disp, ext, sess, orch>>

\* lines 166-168, then the loop over the chunks (lines 212-219, 224-231,
\* 236-243, 246-253): a block of the line's type for every chunk
_chunk_text_return ==
  /\ conv.pc = "chunk"
  /\ conv.pos > Len(conv.text)
  /\ LET chunks == IF conv.current # <<>>
                     THEN Append(conv.chunks, conv.current) ELSE conv.chunks
     IN  conv' = [conv EXCEPT
           !.chunks = chunks,
           !.blocks = conv.blocks \o
                        [k \in 1..Len(chunks) |-> Block(conv.block_type, chunks[k])],
           !.pc = "line"]
  /\ UNCHANGED <<split, pub, disp, ext, sess, orch>>

\* line 254
ConvReturn ==
  /\ conv.pc = "line"
  /\ conv.lines = <<>>
  /\ conv' = [conv EXCEPT !.pc = "done"]
  /\ UNCHANGED <<split, pub, disp, ext, sess, orch>>

ConvNext ==
  \/ _text_blocks_from_content
  \/ ConvLine
  \/ _chunk_text_char
  \/ _chunk_text_return
  \/ ConvReturn

SpecConvert == ConvInit /\ [][ConvNext]_vars

\* the total text length of a block
RECURSIVE RichLen(_)
RichLen(rich_text) ==
  IF rich_text = <<>> THEN 0
  ELSE Len(Head(rich_text).content) + RichLen(Tail(rich_text))

\* C9 (refuted by the code): _text_blocks_from_content returns one block at
\* least, and for the empty text exactly one empty paragraph.
C9_AtLeastOneBlock ==
  conv.pc = "done" =>
    /\ Len(conv.blocks) >= 1
    /\ conv.content = <<>> => conv.blocks = <<EmptyParagraph>>

\* C10: no block holds more than 1800 characters of text, whatever its type,
\* and a text that is one line gives blocks of one and the same type whose
\* chunks, in order, make up the text of the line.
C10_BlocksWithinLimit ==
  /\ \A k \in 1..Len(conv.blocks) :
       /\ RichLen(conv.blocks[k].rich_text) <= 1800
       /\ Len(conv.blocks[k].chunk) <= 1800
  /\ (conv.pc = "done" /\ NL \notin Range(conv.content)
        /\ strip(conv.content) # <<>>) =>
       LET c == Classify(strip(conv.content))
       IN  /\ \A k \in 1..Len(conv.blocks) : conv.blocks[k].type = c.type
           /\ Concat([k \in 1..Len(conv.blocks) |-> conv.blocks[k].chunk]) = c.text
           /\ Len(conv.blocks) = (Len(c.text) + 1799) \div 1800

\* C10's case: a numbered item one character longer than a block may be has
\* become two numbered items, the first of them full.
C10_Witness ==
  /\ conv.pc = "done"
  /\ Len(conv.blocks) = 2
  /\ conv.blocks[1].type = <<"numbered_list_item">>
  /\ conv.blocks[2].type = <<"numbered_list_item">>
  /\ RichLen(conv.blocks[1].rich_text) = 1800
  /\ RichLen(conv.blocks[2].rich_text) = 1


(***************************************************************************)
(* The download directory (src/app.py, 75-80, 328-350; voom_downloader.py, *)
(* 15-24).  voom_images is one directory of the process's working          *)
(* directory, shared by every pipeline run.  A session is seen here from   *)
(* the directory: _clear_voom_images empties it, the script writes the     *)
(* file "<index><ext>" for each image of the post in turn, and             *)
(* _load_voom_images lists it.  handle_message starts one thread for each  *)
(* accepted message (lines 548-555) and takes no lock, so the steps of the *)
(* sessions of two messages interleave freely.  A file is a record of its  *)
(* name, the run that wrote it and the sequence number it was written      *)
(* with.                                                                   *)
(***************************************************************************)
DecimalDigits == <<"0", "1", "2", "3", "4", "5", "6", "7", "8", "9">>

\* str(idx) of the f-string of line 23
RECURSIVE str(_)
str(n) ==
  IF n < 10 THEN <<DecimalDigits[n + 1]>>
  ELSE str(n \div 10) \o <<DecimalDigits[(n % 10) + 1]>>

\* The extensions os.path.splitext finds in the paths of the image URLs.
ImageExts == { <<".", "j", "p", "g">>, <<".", "p", "n", "g">> }

\* ord() of the characters of a file name
Ord(c) ==
  IF c = "." THEN 46
  ELSE IF c = "g" THEN 103
  ELSE IF c = "j" THEN 106
  ELSE IF c = "n" THEN 110
  ELSE IF c = "p" THEN 112
  ELSE 47 + (CHOOSE d \in 1..10 : DecimalDigits[d] = c)

\* a < b of two Python strings: by code point at the first difference, a
\* proper prefix first
StrLess(a, b) ==
  \E k \in 1..Len(b) :
    /\ \A i \in 1..(k - 1) : i <= Len(a) /\ a[i] = b[i]
    /\ Len(a) >= k - 1
    /\ (Len(a) = k - 1 \/ Ord(a[k]) < Ord(b[k]))

\* voom_downloader.py line 23: the file is written, replacing a file of the
\* same name
WriteFile(dir, run, idx, suffix) ==
  LET name == str(idx) \o suffix
  IN  {f \in dir : f.name # name} \cup {[name |-> name, by |-> run, n |-> idx]}

\* lines 75-80: every file of the directory is removed
_clear_voom_images(dir) == {}

\* lines 339-350: the files of the directory, sorted as strings by path (the
\* paths share the prefix "voom_images/"; MAX_VOOM_IMAGES is None)
_load_voom_images(dir) ==
  [i \in 1..Cardinality(dir) |->
     CHOOSE f \in dir :
       Cardinality({g \in dir : StrLess(g.name, f.name)}) = i - 1]

\* The largest number of images of the post of a session running alone.
MaxFiles == 10

\* The largest number of images of a post when two sessions run.
MaxSharedFiles == 2

Posts(n) == UNION {[1..k -> ImageExts] : k \in 1..n}

NoRun == [pc |-> "none", post |-> <<>>, index |-> 0, images |-> <<>>]

NewRun(post) == [pc |-> "clear", post |-> post, index |-> 0, images |-> <<>>]

\* One accepted message, or two whose threads have both been started.
SessInit ==
  /\ \/ \E post \in Posts(MaxFiles) :
          sess = [dir |-> {}, runs |-> <<NewRun(post), NoRun>>]
     \/ \E p1 \in Posts(MaxSharedFiles), p2 \in Posts(MaxSharedFiles) :
          sess = [dir |-> {}, runs |-> <<NewRun(p1), NewRun(p2)>>]
  /\ split = Idle /\ conv = Idle /\ pub = Idle /\ disp = Idle /\ ext = Idle
  /\ orch = Idle

\* line 329: _download_voom_images clears the directory, then starts the script
SessClear(r) ==
  /\ sess.runs[r].pc = "clear"
  /\ sess' = [sess EXCEPT !.dir = _clear_voom_images(sess.dir),
                          !.runs[r].pc = "downloading",
                          !.runs[r].index = 1]
  /\ UNCHANGED <<split, conv, pub, disp, ext, orch>>

\* voom_downloader.py lines 193-196, 214-217: the next image of the post
SessDownload(r) ==
  /\ sess.runs[r].pc = "downloading"
  /\ sess.runs[r].index <= Len(sess.runs[r].post)
  /\ LET run == sess.runs[r]
     IN  sess' = [sess EXCEPT
           !.dir = WriteFile(sess.dir, r, run.index, run.post[run.index]),
           !.runs[r].index = run.index + 1]
  /\ UNCHANGED <<split, conv, pub, disp, ext, orch>>

\* the script has ended with return code 0 (app.py line 474)
SessExit(r) ==
  /\ sess.runs[r].pc = "downloading"
  /\ sess.runs[r].index > Len(sess.runs[r].post)
  /\ sess' = [sess EXCEPT !.runs[r].pc = "load"]
  /\ UNCHANGED <<split, conv, pub, disp, ext, orch>>

\* app.py line 479
SessLoad(r) ==
  /\ sess.runs[r].pc = "load"
  /\ sess' = [sess EXCEPT !.runs[r].pc = "loaded",
                          !.runs[r].images = _load_voom_images(sess.dir)]
  /\ UNCHANGED <<split, conv, pub, disp, ext, orch>>

SessNext ==
  \E r \in 1..2 :
    \/ SessClear(r)
    \/ SessDownload(r)
    \/ SessExit(r)
    \/ SessLoad(r)

SpecSessions == SessInit /\ [][SessNext]_vars

\* the images run r loaded are the files its own session wrote, all of them
OwnImages(r) ==
  LET run == sess.runs[r]
  IN  /\ Len(run.images) = Len(run.post)
      /\ \A i \in 1..Len(run.images) : run.images[i].by = r

\* C12 (refuted by the code): at most one session is between clearing the
\* directory and loading its images at any time, and the images a run loads
\* are exactly the files its own session downloaded.
C12_OneSessionAtATime ==
  /\ Cardinality({r \in 1..2 : sess.runs[r].pc \in {"downloading", "load"}}) <= 1
  /\ \A r \in 1..2 : sess.runs[r].pc = "loaded" => OwnImages(r)

\* C18 (refuted by the code): the images a session loads, when they are its
\* own downloads, are in ascending order of their sequence numbers.
C18_ImagesInNumericOrder ==
  \A r \in 1..2 :
    (sess.runs[r].pc = "loaded" /\ OwnImages(r)) =>
      \A i \in 1..Len(sess.runs[r].images) : sess.runs[r].images[i].n = i


(***************************************************************************)
(* The orchestrator (src/app.py, 83-99, 472-501, 522-565): handle_message  *)
(* on one text message, and the pipeline run it starts, in the thread of   *)
(* process_voom_background when the event has a target id and inside the   *)
(* handler when it has none.  The run starts the script (ext) and the      *)
(* publishing client (pub) and waits for each; the analysis is a black     *)
(* box that returns a text or raises; a call of the messaging API returns  *)
(* or raises.  The status texts are short, so each dispatcher operation    *)
(* makes one API call, logged in orch.calls with the kind of the text.     *)
(***************************************************************************)
Https == <<"h", "t", "t", "p", "s", ":", "/", "/">>

Http == <<"h", "t", "t", "p", ":", "/", "/">>

\* "voom.line.me" (line 541)
VoomHost == <<"v", "o", "o", "m", ".", "l", "i", "n", "e", ".", "m", "e">>

\* "linevoom.line.me" (line 541)
LineVoomHost == <<"l", "i", "n", "e">> \o VoomHost

\* a host that is not a LINE VOOM host
OtherHost == <<"e", ".", "x">>

PostPath == <<"/", "p">>

\* The texts of the messages: a post URL of either host; one after the mode
\* prefix "2" and with a full stop behind it; one inside a sentence, over
\* http; a URL of another host; a URL of another host with the name of a
\* VOOM host in its path; a URL whose host only begins with the name of a
\* VOOM host; a text with no URL.
Messages ==
  { Https \o VoomHost \o PostPath,
    <<"2", " ">> \o Https \o LineVoomHost \o PostPath \o <<".">>,
    <<"a", " ">> \o Http \o VoomHost \o PostPath \o <<" ", "b">>,
    Https \o OtherHost \o PostPath,
    Https \o OtherHost \o <<"/">> \o VoomHost,
    Https \o VoomHost \o <<".">> \o OtherHost \o PostPath,
    <<"h", "i">> }

\* text[i:].startswith(pat), i counted from 1
StartsWith(text, i, pat) ==
  /\ i + Len(pat) - 1 <= Len(text)
  /\ \A k \in 1..Len(pat) : text[i + k - 1] = pat[k]

\* pat in text
Contains(text, pat) == \E i \in 1..Len(text) : StartsWith(text, i, pat)

\* _PREFIX_RE.match(text) (lines 70-72), over ASCII: where the match ends
\* and the digit it holds; fin = 0 when there is no match.  Each \s* takes
\* the white space there is, a bracket is taken when one is there, and the
\* final class needs one character at least; when nothing follows a closing
\* bracket the expression matches again without taking the bracket.
PrefixMatch(text) ==
  LET seps == WS \cup {":", "-"}
      a == 1 + Run(text, 1, WS)
      b == IF a <= Len(text) /\ text[a] \in {"[", "("} THEN a + 1 ELSE a
      c == b + Run(text, b, WS)
  IN  IF c > Len(text) \/ text[c] \notin {"1", "2"}
        THEN [fin |-> 0, prefix |-> "None"]
        ELSE LET d == c + 1 + Run(text, c + 1, WS)
                 closed == IF d <= Len(text) /\ text[d] \in {"]", ")"}
                             THEN Run(text, d + 1, seps) ELSE 0
                 open == Run(text, c + 1, seps)
             IN  IF closed > 0 THEN [fin |-> d + closed, prefix |-> text[c]]
                 ELSE IF open > 0 THEN [fin |-> c + open, prefix |-> text[c]]
                 ELSE [fin |-> 0, prefix |-> "None"]

\* lines 91-99; the lstrip of line 99 finds no white space left, the match
\* having taken it
_detect_report_mode(text) ==
  LET match == PrefixMatch(text)
  IN  IF text = <<>> \/ match.fin = 0
        THEN [mode |-> "morning", content_text |-> text]
        ELSE [mode |-> IF match.prefix = "2" THEN "after_hours" ELSE "morning",
              content_text |-> From(text, match.fin)]

\* the characters rstrip removes (line 88), over ASCII
UrlTrailers == {")", ".", ",", ";", ">"}

\* lines 83-88: the leftmost match of https?://\S+, without the trailing
\* punctuation; None is the empty text
_extract_first_url(text) ==
  LET starts == {i \in 1..Len(text) :
                   \E scheme \in {Https, Http} :
                     /\ StartsWith(text, i, scheme)
                     /\ i + Len(scheme) <= Len(text)
                     /\ text[i + Len(scheme)] \notin WS}
  IN  IF starts = {} THEN <<>>
      ELSE LET i == Min(starts)
               n == Run(text, i, Range(text) \ WS)
           IN  SubSeq(text, i, i + n - 1 -
                                 Run([k \in 1..n |-> text[i + n - k]],
                                     1, UrlTrailers))

\* line 541: the test that lets a message through to the pipeline
IsVoomUrl(url) ==
  url # <<>> /\ (Contains(url, VoomHost) \/ Contains(url, LineVoomHost))

\* the host of a URL: what stands between "://" and the next "/", "?" or "#"
HostOf(url) ==
  LET scheme == IF StartsWith(url, 1, Https) THEN Https ELSE Http
      rest == From(url, Len(scheme))
  IN  SubSeq(rest, 1, Run(rest, 1, Range(rest) \ {"/", "?", "#"}))

AllowedHosts == {VoomHost, LineVoomHost}


\* The deployment: NOTION_TOKEN and the page of the morning reports are set,
\* NOTION_PARENT_PAGE_AFTER_HOURS_URL is not (lines 55-57).
NOTION_TOKEN == TRUE

NOTION_PARENT_PAGE_MORNING == Rep("a", 32)

NOTION_PARENT_PAGE_AFTER_HOURS == <<>>

\* lines 366-367
_analysis_parent_page(mode) ==
  IF mode = "after_hours" THEN NOTION_PARENT_PAGE_AFTER_HOURS
  ELSE NOTION_PARENT_PAGE_MORNING

\* The largest number of slides of the post of a pipeline run.
PipeMaxSlides == 2

PipeCarousels == UNION {[1..n -> {"A", "B", "None"}] : n \in 1..PipeMaxSlides}

\* The numbers of blocks the analysis text converts to: none, and enough for
\* the create call and two append calls.
PipeBlockCounts == {0, NOTION_BLOCK_LIMIT + NOTION_APPEND_BATCH_SIZE - 1}

\* voom_downloader.py line 20: the extension of the path of an image URL, or
\* ".jpg" when it has none
UrlExt(img_url) ==
  IF img_url = "B" THEN <<".", "p", "n", "g">> ELSE <<".", "j", "p", "g">>

\* the directory after the script has written its files
FilesWritten(dir, files) ==
  LET new == {[name |-> str(files[i].n) \o UrlExt(files[i].url),
               by |-> 1, n |-> files[i].n] : i \in 1..Len(files)}
  IN  {f \in dir : \A g \in new : g.name # f.name} \cup new

\* what an earlier run may have left in the directory
LeftOver == {[name |-> str(9) \o UrlExt("A"), by |-> 0, n |-> 9]}

PipeInit ==
  /\ \E text \in Messages, target_id \in {"None", "U1"}, dir \in {{}, LeftOver} :
       orch = [pc |-> "handle", text |-> text, target_id |-> target_id,
               mode |-> "None", url |-> <<>>, thread |-> "none",
               stages |-> <<>>, raised |-> "None", calls |-> <<>>,
               dir |-> dir, exit |-> "None", download_failed |-> FALSE,
               images |-> <<>>, blocks |-> 0]
  /\ split = Idle /\ conv = Idle /\ pub = Idle /\ disp = Idle /\ ext = Idle
  /\ sess = Idle

\* lines 524-529: the mode and the URL of the message
Parsed(text) ==
  LET user_message == strip(text)
      detected == _detect_report_mode(user_message)
  IN  [mode |-> detected.mode,
       url |-> _extract_first_url(detected.content_text)]

\* a call of reply_message (line 454) or of push_message (line 442) with the
\* text msg, which returned (ok) or raised
ApiCall(kind, to, msg, ok) == [kind |-> kind, to |-> to, msg |-> msg, ok |-> ok]

\* how a run reports: process_voom_background by _push_text to the target id
\* (lines 495, 497, 501), the fallback of handle_message by
\* _reply_with_optional_push with no target id (lines 560, 565)
Report(o, msg, ok) ==
  IF o.thread = "background"
    THEN ApiCall("push", o.target_id, msg, ok)
    ELSE ApiCall("reply", "reply_token", msg, ok)

\* lines 541-546: no URL, or not one of a VOOM post
handle_message_usage(ok) ==
  /\ orch.pc = "handle"
  /\ LET parsed == Parsed(orch.text)
     IN  /\ ~IsVoomUrl(parsed.url)
         /\ orch' = [orch EXCEPT
              !.mode = parsed.mode, !.url = parsed.url,
              !.calls = Append(@, ApiCall("reply", "reply_token", "usage", ok)),
              !.pc = IF ok THEN "returned" ELSE "escaped"]
  /\ UNCHANGED <<split, conv, pub, disp, ext, sess>>

\* lines 548-556: the reply, then the thread of process_voom_background
handle_message_background(ok) ==
  /\ orch.pc = "handle"
  /\ orch.target_id # "None"
  /\ LET parsed == Parsed(orch.text)
     IN  /\ IsVoomUrl(parsed.url)
         /\ orch' = [orch EXCEPT
              !.mode = parsed.mode, !.url = parsed.url,
              !.calls = Append(@, ApiCall("reply", "reply_token", "received", ok)),
              !.thread = IF ok THEN "background" ELSE "none",
              !.pc = IF ok THEN "status" ELSE "escaped"]
  /\ UNCHANGED <<split, conv, pub, disp, ext, sess>>

\* lines 558-559: no target id, the run is made inside the handler
handle_message_fallback ==
  /\ orch.pc = "handle"
  /\ orch.target_id = "None"
  /\ LET parsed == Parsed(orch.text)
     IN  /\ IsVoomUrl(parsed.url)
         /\ orch' = [orch EXCEPT
              !.mode = parsed.mode, !.url = parsed.url,
              !.thread = "sync",
              !.pc = "download"]
  /\ UNCHANGED <<split, conv, pub, disp, ext, sess>>

\* lines 494-495: the first push of process_voom_background
process_voom_background_status(ok) ==
  /\ orch.pc = "status"
  /\ orch' = [orch EXCEPT
       !.calls = Append(@, Report(orch, "analysing", ok)),
       !.raised = IF ok THEN @ ELSE "delivery",
       !.pc = IF ok THEN "download" ELSE "except"]
  /\ UNCHANGED <<split, conv, pub, disp, ext, sess>>

\* lines 473, 328-336: the directory is cleared and the script started, on
\* the post the URL leads to
_download_voom_images_call ==
  /\ orch.pc = "download"
  /\ \E slides \in PipeCarousels, has_idx \in BOOLEAN, wraps \in BOOLEAN,
        hinted \in BOOLEAN :
       ext' = ExtStart(slides, has_idx, wraps, hinted)
  /\ orch' = [orch EXCEPT
       !.dir = _clear_voom_images(orch.dir),
       !.stages = Append(@, "extraction"),
       !.pc = "subprocess"]
  /\ UNCHANGED <<split, conv, pub, disp, sess>>

\* the return code of the script with every exit taken for a success
ReturnCode_Zero(e) == 0

\* the return code of the script: 0 after its last line, 1 when an uncaught
\* exception ended it
ReturnCode(e) == IF e.pc = "done" THEN 0 ELSE 1

\* lines 473-478: the script has ended; a return code other than 0 raises
_download_voom_images_return ==
  /\ orch.pc = "subprocess"
  /\ ext.pc \in {"done", "failed", "crashed"}
  /\ LET returncode == ReturnCode(ext)
     IN  orch' = [orch EXCEPT
           !.dir = FilesWritten(orch.dir, ext.files),
           !.exit = IF returncode = 0 THEN "0" ELSE "1",
           !.download_failed = (ext.pc = "failed"),
           !.raised = IF returncode # 0 THEN "extraction" ELSE @,
           !.pc = IF returncode # 0 THEN "except" ELSE "load"]
  /\ ext' = [pc |-> "exited"]
  /\ UNCHANGED <<split, conv, pub, disp, sess>>

\* line 335: the script is still running after 180 seconds; subprocess.run
\* kills it and raises TimeoutExpired
_download_voom_images_timeout ==
  /\ orch.pc = "subprocess"
  /\ ext.pc \in {"loop", "advance"}
  /\ orch' = [orch EXCEPT
       !.dir = FilesWritten(orch.dir, ext.files),
       !.exit = "TimeoutExpired",
       !.raised = "extraction",
       !.pc = "except"]
  /\ ext' = [pc |-> "killed"]
  /\ UNCHANGED <<split, conv, pub, disp, sess>>

\* lines 479-481
_process_voom_sync_load ==
  /\ orch.pc = "load"
  /\ LET images == _load_voom_images(orch.dir)
     IN  orch' = [orch EXCEPT
           !.images = images,
           !.stages = Append(@, "load"),
           !.raised = IF images = <<>> THEN "load" ELSE @,
           !.pc = IF images = <<>> THEN "except" ELSE "analyze"]
  /\ UNCHANGED <<split, conv, pub, disp, ext, sess>>

\* lines 483-484: the analysis returns a text, of n blocks once converted,
\* or raises
analyze_voom_images(ok, n) ==
  /\ orch.pc = "analyze"
  /\ orch' = [orch EXCEPT
       !.stages = Append(@, "analysis"),
       !.blocks = IF ok THEN n ELSE @,
       !.raised = IF ok THEN @ ELSE "analysis",
       !.pc = IF ok THEN "publish" ELSE "except"]
  /\ UNCHANGED <<split, conv, pub, disp, ext, sess>>

\* lines 486-489: _create_notion_page is called
_process_voom_sync_publish ==
  /\ orch.pc = "publish"
  /\ pub' = PubCall(NOTION_TOKEN, _analysis_parent_page(orch.mode),
                    ContentBlocks(orch.blocks))
  /\ orch' = [orch EXCEPT !.stages = Append(@, "publish"),
                          !.pc = "publishing"]
  /\ UNCHANGED <<split, conv, disp, ext, sess>>

\* lines 489-490 with an error of _create_notion_page taken for a return
_process_voom_sync_return_Always ==
  /\ orch.pc = "publishing"
  /\ pub.pc \in {"done", "raised"}
  /\ orch' = [orch EXCEPT !.pc = "report"]
  /\ UNCHANGED <<split, conv, pub, disp, ext, sess>>

\* lines 489-490: _create_notion_page has returned or raised
_process_voom_sync_return ==
  /\ orch.pc = "publishing"
  /\ pub.pc \in {"done", "raised"}
  /\ orch' = [orch EXCEPT
       !.raised = IF pub.pc = "raised" THEN "publish" ELSE @,
       !.pc = IF pub.pc = "raised" THEN "except" ELSE "report"]
  /\ UNCHANGED <<split, conv, pub, disp, ext, sess>>

\* lines 496 and 560: the message of the success
ReportSuccess(ok) ==
  /\ orch.pc = "report"
  /\ orch' = [orch EXCEPT
       !.calls = Append(@, Report(orch, "success", ok)),
       !.raised = IF ok THEN @ ELSE "delivery",
       !.pc = IF ok THEN "ended" ELSE "except"]
  /\ UNCHANGED <<split, conv, pub, disp, ext, sess>>

\* lines 497-501 and 561-565 with nothing reported
ReportFailure_Silent(ok) ==
  /\ orch.pc = "except"
  /\ orch' = [orch EXCEPT !.pc = "ended"]
  /\ UNCHANGED <<split, conv, pub, disp, ext, sess>>

\* lines 497-501 and 561-565: the except branch reports the failure; an
\* error of that call is caught by nothing
ReportFailure(ok) ==
  /\ orch.pc = "except"
  /\ orch' = [orch EXCEPT
       !.calls = Append(@, Report(orch, "failure", ok)),
       !.pc = IF ok THEN "ended" ELSE "escaped"]
  /\ UNCHANGED <<split, conv, pub, disp, ext, sess>>

\* the steps of handle_message up to the start of the run
HandleNext ==
  \/ \E ok \in BOOLEAN : handle_message_usage(ok)
  \/ \E ok \in BOOLEAN : handle_message_background(ok)
  \/ handle_message_fallback

\* the steps of a run, of the script and of the publishing client included
RunNext ==
  \/ \E ok \in BOOLEAN : process_voom_background_status(ok)
  \/ _download_voom_images_call
  \/ ExtNext
  \/ _download_voom_images_return
  \/ _download_voom_images_timeout
  \/ _process_voom_sync_load
  \/ \E ok \in BOOLEAN, n \in PipeBlockCounts : analyze_voom_images(ok, n)
  \/ _process_voom_sync_publish
  \/ PubNext
  \/ _process_voom_sync_return
  \/ \E ok \in BOOLEAN : ReportSuccess(ok)
  \/ \E ok \in BOOLEAN : ReportFailure(ok)

PipeNext == HandleNext \/ RunNext

\* A run that can take a step takes one, and the timeout of the script does
\* expire when the script goes on running.
SpecPipeline ==
  /\ PipeInit
  /\ [][PipeNext]_vars
  /\ WF_vars(RunNext)
  /\ WF_vars(_download_voom_images_timeout)

\* the run is over: its thread, or the handler that made it, has returned
\* or has been left by an exception
RunOver == orch.thread # "none" /\ orch.pc \in {"ended", "escaped"}

\* C11 (refuted by the code): in a pipeline run, in the background or inside
\* the handler, once a stage or the delivery of a status message has raised,
\* no later stage is run, the failure message is handed to the dispatcher,
\* and no exception leaves process_voom_background or handle_message.
C11_StageErrorCaughtAndReported ==
  (orch.thread # "none" /\ orch.raised # "None") =>
    /\ orch.pc \in {"except", "ended", "escaped"}
    /\ orch.raised # "delivery" => orch.stages[Len(orch.stages)] = orch.raised
    /\ orch.pc # "except" =>
         /\ orch.calls # <<>>
         /\ orch.calls[Len(orch.calls)].msg = "failure"
    /\ orch.pc # "escaped"

\* C13: when raise_for_status raises in the script, the script takes no
\* further step (no later slide is visited or downloaded) and ends with a
\* return code other than 0; the run raises on it, so that the images written
\* before the failure are never loaded or analysed, _create_notion_page is
\* never called and no success is reported.
C13_FailedDownloadFailsTheRun ==
  /\ [][ (orch.pc = "subprocess" /\ ext.pc = "failed")
           => (ext'.pc = "exited" /\ orch'.download_failed) ]_vars
  /\ [](orch.download_failed =>
          /\ orch.exit = "1"
          /\ orch.raised = "extraction"
          /\ orch.pc \in {"except", "ended", "escaped"}
          /\ orch.stages = <<"extraction">>
          /\ orch.images = <<>>
          /\ pub = Idle
          /\ \A i \in 1..Len(orch.calls) : orch.calls[i].msg # "success")

\* C13's case: the second download of a session failed; the first image is
\* in the directory and the run has ended with its failure message.
C13_Witness ==
  /\ orch.download_failed
  /\ orch.pc = "ended"
  /\ Cardinality(orch.dir) = 1
  /\ orch.calls[Len(orch.calls)].msg = "failure"

\* C17 as stated (refuted): a run that is over has delivered its final
\* result, success or failure, by a push call.
C17_FinalResultByPush ==
  RunOver =>
    /\ orch.calls # <<>>
    /\ orch.calls[Len(orch.calls)].kind = "push"
    /\ orch.calls[Len(orch.calls)].msg \in {"success", "failure"}

\* C17, amended: every run that has started comes to its end, and the last
\* thing it did was to hand its final message, success or failure, to the
\* dispatcher: a background run by a push to its target id, a run inside
\* the handler, which has no target id, by a reply.  The run ends normally
\* exactly when that call returned.
C17_RunEndsHavingReported ==
  /\ (orch.thread # "none") ~> RunOver
  /\ [](RunOver =>
          /\ orch.calls # <<>>
          /\ LET last == orch.calls[Len(orch.calls)]
             IN  /\ last.msg \in {"success", "failure"}
                 /\ orch.thread = "background"
                      => last.kind = "push" /\ last.to = orch.target_id
                 /\ orch.thread = "sync" => last.kind = "reply"
                 /\ last.ok <=> orch.pc = "ended")

\* C17's case: a run made inside the handler (no target id) that published
\* its page; its one message is the reply with the success.
C17_Witness ==
  /\ orch.thread = "sync" /\ orch.pc = "ended"
  /\ pub.pc = "done"
  /\ orch.calls = <<ApiCall("reply", "reply_token", "success", TRUE)>>

\* C19 (refuted by the code): a pipeline run is started only for a message
\* whose URL has a host of the allow-list; for every other message the
\* handler makes the usage reply and nothing else.
C19_RunOnlyForAllowedHost ==
  LET allowed == orch.url # <<>> /\ HostOf(orch.url) \in AllowedHosts
  IN  /\ orch.thread # "none" => allowed
      /\ (orch.pc # "handle" /\ ~allowed) =>
           /\ orch.stages = <<>>
           /\ Len(orch.calls) = 1
           /\ orch.calls[1].kind = "reply" /\ orch.calls[1].msg = "usage"


\* C23 (refuted by the code): whatever path handle_message takes, the reply
\* operation is invoked at most once with the reply token of the event.
C23_ReplyTokenUsedOnce ==
  Cardinality({i \in 1..Len(orch.calls) : orch.calls[i].kind = "reply"}) <= 1

\* C24: a success message is handed to the dispatcher only after the create
\* call and every append call of the run have succeeded; no run has both its
\* success message and its failure message delivered; and a run whose script
\* left no image has no success message and never calls _create_notion_page.
C24_SuccessOnlyAfterPublished ==
  LET sent(msg) == {i \in 1..Len(orch.calls) : orch.calls[i].msg = msg}
  IN  /\ sent("success") # {} =>
           /\ pub.pc = "done"
           /\ pub.sent # <<>>
           /\ pub.succeeded = Len(pub.sent)
           /\ pub.remaining = <<>>
      /\ ~ \E i \in sent("success"), j \in sent("failure") :
             orch.calls[i].ok /\ orch.calls[j].ok
      /\ (orch.exit # "None" /\ orch.dir = {}) =>
           /\ sent("success") = {}
           /\ pub.pc = "idle"
           /\ orch.pc \in {"load", "except", "ended", "escaped"}

\* C24's case: a background run whose page took the create call and two
\* append calls; the push of the success message is its last call.
C24_Witness ==
  /\ orch.thread = "background" /\ orch.pc = "ended"
  /\ pub.pc = "done" /\ Len(pub.sent) = 3
  /\ orch.calls[Len(orch.calls)] = ApiCall("push", orch.target_id, "success", TRUE)

=============================================================================
